---- MODULE Spec2Model ----
(***************************************************************************)
(* Model of node-scraper (src/src/main.rs): a collector task that clears   *)
(* a shared store and refills it from the parsed output of `top` and       *)
(* `netstat -s`, and an HTTP loop that renders the store on /metrics.      *)
(*                                                                         *)
(* Text is modelled as a sequence of one-character strings; BAD stands for *)
(* a byte that is not valid UTF-8 and EACUTE for a two-byte character.     *)
(* An f64 is modelled as the exact decimal m * 10^e (k = "num") or as one  *)
(* of the special values; binary rounding is not modelled.                 *)
(***************************************************************************)
EXTENDS Integers, Sequences, FiniteSets, TLC

\* ------------------------------------------------------------------ bounds
\* Largest run of spaces used between the fields of a generated line.
MaxPad == 2
\* Largest number of columns a generated process row has after column 8.
MaxExtra == 2
\* Largest number of requests waiting in the HTTP server's queue.
MaxQueue == 1
\* most lines of a generated `netstat -s` output
MaxNetLines == 3

\* ------------------------------------------------------------ characters
BAD == "\\xFF"
EACUTE == "e'"
NL == "\n"
TAB == "\t"
QUOTE == "\""
Digits == {"0", "1", "2", "3", "4", "5", "6", "7", "8", "9"}
\* char::is_whitespace, for the characters the model uses
WhiteSpace == {" ", TAB, NL}

\* Number of bytes of a character in UTF-8.
ByteLen(c) == IF c = EACUTE THEN 2 ELSE 1

\* ------------------------------------------------- metric identifiers
CPU_USER_ID == <<"c", "p", "u", "_", "u", "s", "e", "r">>
CPU_IDLE_ID == <<"c", "p", "u", "_", "i", "d", "l", "e">>
CPU_SYSTEM_ID == <<"c", "p", "u", "_", "s", "y", "s", "t", "e", "m">>
CPU_NICE_ID == <<"c", "p", "u", "_", "n", "i", "c", "e">>
MEM_TOTAL_ID == <<"m", "e", "m", "_", "t", "o", "t", "a", "l">>
MEM_FREE_ID == <<"m", "e", "m", "_", "f", "r", "e", "e">>
MEM_USED_ID == <<"m", "e", "m", "_", "u", "s", "e", "d">>
MEM_BUFFERED_ID == <<"m", "e", "m", "_", "b", "u", "f", "f", "e", "r", "e", "d">>
PROC_CPU_ID == <<"p", "r", "o", "c", "_", "c", "p", "u">>
PROC_MEM_ID == <<"p", "r", "o", "c", "_", "m", "e", "m">>
NETSTAT_INFO_ID == <<"n", "e", "t", "s", "t", "a", "t", "_", "i", "n", "f", "o">>

\* ------------------------------------------------------ str operations
\* Index of the first occurrence of character c in s, 0 when there is none.
IndexOf(s, c) ==
    IF \E i \in 1..Len(s) : s[i] = c
    THEN CHOOSE i \in 1..Len(s) : s[i] = c /\ \A j \in 1..(i - 1) : s[j] # c
    ELSE 0

\* str::split / slice::split on one separator: always at least one piece,
\* an empty piece between two adjacent separators.
RECURSIVE Split(_, _)
Split(s, c) ==
    LET i == IndexOf(s, c)
    IN  IF i = 0 THEN <<s>>
        ELSE <<SubSeq(s, 1, i - 1)>> \o Split(SubSeq(s, i + 1, Len(s)), c)

\* .filter(|&v| v != "")
NonEmpty(parts) == SelectSeq(parts, LAMBDA p : p # <<>>)

\* str::trim_matches: strips the characters of cs from both ends.
TrimMatches(s, cs) ==
    IF \A i \in 1..Len(s) : s[i] \in cs THEN <<>>
    ELSE LET a == CHOOSE i \in 1..Len(s) :
                      s[i] \notin cs /\ \A j \in 1..(i - 1) : s[j] \in cs
             b == CHOOSE i \in 1..Len(s) :
                      s[i] \notin cs /\ \A j \in (i + 1)..Len(s) : s[j] \in cs
         IN  SubSeq(s, a, b)

\* str::trim
Trim(s) == TrimMatches(s, WhiteSpace)

\* str::replace(",", ".")
ReplaceComma(s) == [i \in 1..Len(s) |-> IF s[i] = "," THEN "." ELSE s[i]]

\* str::starts_with
StartsWith(s, p) == Len(s) >= Len(p) /\ SubSeq(s, 1, Len(p)) = p

\* String::pop: removes the last character, nothing from an empty string.
Pop(s) == IF s = <<>> THEN s ELSE SubSeq(s, 1, Len(s) - 1)

\* str::from_utf8 succeeds
IsUtf8(s) == \A i \in 1..Len(s) : s[i] # BAD

RECURSIVE Concat(_)
Concat(ss) == IF ss = <<>> THEN <<>> ELSE Head(ss) \o Concat(Tail(ss))

\* --------------------------------------------------------- f64 parsing
DigitVal(c) ==
    CASE c = "0" -> 0 [] c = "1" -> 1 [] c = "2" -> 2 [] c = "3" -> 3
      [] c = "4" -> 4 [] c = "5" -> 5 [] c = "6" -> 6 [] c = "7" -> 7
      [] c = "8" -> 8 [] c = "9" -> 9

IsDigits(s) == \A i \in 1..Len(s) : s[i] \in Digits

RECURSIVE DigitsVal(_)
DigitsVal(s) ==
    IF s = <<>> THEN 0
    ELSE DigitsVal(SubSeq(s, 1, Len(s) - 1)) * 10 + DigitVal(s[Len(s)])

\* The decimal m * 10^e with no trailing zero in m.
RECURSIVE Num(_, _)
Num(m, e) ==
    IF m = 0 THEN [k |-> "num", m |-> 0, e |-> 0]
    ELSE IF m % 10 = 0 THEN Num(m \div 10, e + 1)
    ELSE [k |-> "num", m |-> m, e |-> e]

INF_WORDS == {<<"i", "n", "f">>, <<"i", "n", "f", "i", "n", "i", "t", "y">>}
NAN_WORD == <<"n", "a", "n">>

ParseOk(val) == [ok |-> TRUE, val |-> val, err |-> ""]
ParseErr(msg) == [ok |-> FALSE, val |-> Num(0, 0), err |-> msg]

\* The decimal with integer digits ip, fraction digits fp and exponent
\* digits edigits (hasExp: an 'e' was present).
ParseFields(sgn, ip, fp, hasExp, esgn, edigits) ==
    IF /\ IsDigits(ip) /\ IsDigits(fp) /\ Len(ip) + Len(fp) > 0
       /\ (hasExp => edigits # <<>> /\ IsDigits(edigits))
    THEN ParseOk(Num(sgn * DigitsVal(ip \o fp),
                     esgn * DigitsVal(edigits) - Len(fp)))
    ELSE ParseErr("invalid float literal")

ParseMantissa(sgn, mant, dot, hasExp, expo) ==
    ParseFields(sgn,
                IF dot = 0 THEN mant ELSE SubSeq(mant, 1, dot - 1),
                IF dot = 0 THEN <<>> ELSE SubSeq(mant, dot + 1, Len(mant)),
                hasExp,
                IF expo # <<>> /\ expo[1] = "-" THEN -1 ELSE 1,
                IF expo # <<>> /\ expo[1] \in {"+", "-"} THEN Tail(expo) ELSE expo)

ParseDecimal(sgn, body, epos) ==
    ParseMantissa(sgn,
                  IF epos = 0 THEN body ELSE SubSeq(body, 1, epos - 1),
                  IndexOf(IF epos = 0 THEN body ELSE SubSeq(body, 1, epos - 1), "."),
                  epos # 0,
                  IF epos = 0 THEN <<>> ELSE SubSeq(body, epos + 1, Len(body)))

ParseBody(sgn, body) ==
    IF body \in INF_WORDS THEN ParseOk([k |-> "inf", m |-> sgn, e |-> 0])
    ELSE IF body = NAN_WORD THEN ParseOk([k |-> "nan", m |-> 0, e |-> 0])
    ELSE ParseDecimal(sgn, body,
                      IF IndexOf(body, "e") # 0 THEN IndexOf(body, "e")
                      ELSE IndexOf(body, "E"))

\* <f64 as FromStr>::from_str: [sign] (inf | infinity | nan | decimal [exp]),
\* decimal = digits, digits '.' [digits] or [digits] '.' digits.
parse_f64(s) ==
    IF s = <<>> THEN ParseErr("cannot parse float from empty string")
    ELSE ParseBody(IF s[1] = "-" THEN -1 ELSE 1,
                   IF s[1] \in {"+", "-"} THEN Tail(s) ELSE s)

\* ------------------------------------------------------ the store item
\* Option<Vec<(&str, &str)>>
None == [some |-> FALSE, v |-> <<>>]
Some(v) == [some |-> TRUE, v |-> v]

\* params.iter().fold(String::new(), |acc, &(k,v)| acc + k + "=\"" + v + "\", ")
RECURSIVE FoldParams(_)
FoldParams(ps) ==
    IF ps = <<>> THEN <<>>
    ELSE ps[1][1] \o <<"=", QUOTE>> \o ps[1][2] \o <<QUOTE, ",", " ">>
         \o FoldParams(Tail(ps))

\* send_influx_value writing the braces only when there are labels.
send_influx_value_unbraced(id, params, val) ==
    IF params.some
    THEN [key |-> id \o <<"{">> \o Pop(Pop(FoldParams(params.v))) \o <<"}">>,
          val |-> val]
    ELSE [key |-> id, val |-> val]

\* The (String, f64) pair send_influx_value pushes.
send_influx_value(id, params, val) ==
    LET comb == IF params.some THEN Pop(Pop(FoldParams(params.v))) ELSE <<>>
    IN  [key |-> id \o <<"{">> \o comb \o <<"}">>, val |-> val]

\* ---------------------------------------------------------- line parsers
\* A parser's outcome: status "ok" (Ok(())), "err" (Err(msg)) or "panic";
\* items are the records it pushed to the store before it returned.
Ok(items) == [status |-> "ok", items |-> items, err |-> <<>>]
Err(items, msg) == [status |-> "err", items |-> items, err |-> msg]
Panic(items, msg) == [status |-> "panic", items |-> items, err |-> msg]

TAG_US == <<"u", "s">>
TAG_SY == <<"s", "y">>
TAG_NI == <<"n", "i">>
TAG_ID == <<"i", "d">>

\* CpuMatch with the arms of "sy" and "ni" exchanged.
CpuMatchSwapped(p, tag) ==
    IF ~p.ok THEN <<>>
    ELSE IF tag = <<"u", "s">>
    THEN <<send_influx_value(CPU_USER_ID, None, p.val)>>
    ELSE IF tag = <<"s", "y">>
    THEN <<send_influx_value(CPU_NICE_ID, None, p.val)>>
    ELSE IF tag = <<"n", "i">>
    THEN <<send_influx_value(CPU_SYSTEM_ID, None, p.val)>>
    ELSE IF tag = <<"i", "d">>
    THEN <<send_influx_value(CPU_IDLE_ID, None, p.val)>>
    ELSE <<>>

\* One turn of the loop of handle_cpu_line: p is the parse of the previous
\* part, tag the trimmed current part.
CpuMatch(p, tag) ==
    IF ~p.ok THEN <<>>
    ELSE IF tag = TAG_US THEN <<send_influx_value(CPU_USER_ID, None, p.val)>>
    ELSE IF tag = TAG_SY THEN <<send_influx_value(CPU_SYSTEM_ID, None, p.val)>>
    ELSE IF tag = TAG_NI THEN <<send_influx_value(CPU_NICE_ID, None, p.val)>>
    ELSE IF tag = TAG_ID THEN <<send_influx_value(CPU_IDLE_ID, None, p.val)>>
    ELSE <<>>

\* The loop of handle_cpu_line from part i on, prev being the part before.
RECURSIVE CpuScan(_, _, _)
CpuScan(parts, i, prev) ==
    IF i > Len(parts) THEN <<>>
    ELSE CpuMatch(parse_f64(ReplaceComma(Trim(prev))),
                  TrimMatches(parts[i], {" ", ","}))
         \o CpuScan(parts, i + 1, parts[i])

handle_cpu_line(line) == Ok(CpuScan(Split(line, " "), 1, <<>>))

TAG_TOTAL == <<"t", "o", "t", "a", "l">>
TAG_FREE == <<"f", "r", "e", "e">>
TAG_USED == <<"u", "s", "e", "d">>
TAG_BUFF == <<"b", "u", "f", "f", "/", "c", "a", "c", "h", "e">>

\* MemMatch with the label compared before the ',' is stripped from it.
MemMatchUntrimmed(p, tag) ==
    IF ~p.ok THEN <<>>
    ELSE IF tag = TAG_TOTAL \o <<",">>
    THEN <<send_influx_value(MEM_TOTAL_ID, None, p.val)>>
    ELSE IF tag = TAG_FREE \o <<",">>
    THEN <<send_influx_value(MEM_FREE_ID, None, p.val)>>
    ELSE IF tag = TAG_USED \o <<",">>
    THEN <<send_influx_value(MEM_USED_ID, None, p.val)>>
    ELSE IF tag = TAG_BUFF
    THEN <<send_influx_value(MEM_BUFFERED_ID, None, p.val)>>
    ELSE <<>>

\* One turn of the loop of handle_mem_line.
MemMatch(p, tag) ==
    IF ~p.ok THEN <<>>
    ELSE IF tag = TAG_TOTAL THEN <<send_influx_value(MEM_TOTAL_ID, None, p.val)>>
    ELSE IF tag = TAG_FREE THEN <<send_influx_value(MEM_FREE_ID, None, p.val)>>
    ELSE IF tag = TAG_USED THEN <<send_influx_value(MEM_USED_ID, None, p.val)>>
    ELSE IF tag = TAG_BUFF THEN <<send_influx_value(MEM_BUFFERED_ID, None, p.val)>>
    ELSE <<>>

\* The loop of handle_mem_line from part i on, prev being the part before.
RECURSIVE MemScan(_, _, _)
MemScan(parts, i, prev) ==
    IF i > Len(parts) THEN <<>>
    ELSE MemMatch(parse_f64(ReplaceComma(Trim(prev))),
                  TrimMatches(parts[i], {" ", ","}))
         \o MemScan(parts, i + 1, parts[i])

handle_mem_line(line) == Ok(MemScan(Split(line, " "), 1, <<>>))

KEY_PID == <<"p", "i", "d">>
KEY_USER == <<"u", "s", "e", "r">>
KEY_COMMAND == <<"c", "o", "m", "m", "a", "n", "d">>
ERR_PROC_CPU == "Unable to convert process CPU to float"
ERR_PROC_MEM == "Unable to convert process memory to float"
OUT_OF_BOUNDS == "index out of bounds"

\* ProcSend with the CPU record pushed before the memory column is converted.
ProcSendEager(labels, cpu, mem) ==
    IF ~cpu.ok THEN Err(<<>>, <<ERR_PROC_CPU, cpu.err>>)
    ELSE IF ~mem.ok
    THEN Err(<<send_influx_value(PROC_CPU_ID, Some(labels), cpu.val)>>,
             <<ERR_PROC_MEM, mem.err>>)
    ELSE Ok(<<send_influx_value(PROC_CPU_ID, Some(labels), cpu.val),
              send_influx_value(PROC_MEM_ID, Some(labels), mem.val)>>)

\* The end of handle_proc_line: the CPU column is converted first, then the
\* memory column, and only then are the two records pushed.
ProcSend(labels, cpu, mem) ==
    IF ~cpu.ok THEN Err(<<>>, <<ERR_PROC_CPU, cpu.err>>)
    ELSE IF ~mem.ok THEN Err(<<>>, <<ERR_PROC_MEM, mem.err>>)
    ELSE Ok(<<send_influx_value(PROC_CPU_ID, Some(labels), cpu.val),
              send_influx_value(PROC_MEM_ID, Some(labels), mem.val)>>)

\* ProcItems with the command taken from column 9 instead of the last one.
ProcItemsFixedCommand(line_items) ==
    IF Len(line_items) < 9 THEN Panic(<<>>, <<OUT_OF_BOUNDS>>)
    ELSE ProcSend(<< <<KEY_PID, line_items[1]>>,
                     <<KEY_USER, line_items[2]>>,
                     <<KEY_COMMAND,
                       line_items[IF Len(line_items) >= 10 THEN 10
                                  ELSE Len(line_items)]>> >>,
                  parse_f64(ReplaceComma(line_items[9])),
                  parse_f64(ReplaceComma(line_items[6])))

\* line_items[0], [1], [len-1], [8] and [5] are indexed unchecked: a row with
\* fewer items than an index needs panics at that index.
ProcItems(line_items) ==
    IF Len(line_items) < 9 THEN Panic(<<>>, <<OUT_OF_BOUNDS>>)
    ELSE ProcSend(<< <<KEY_PID, line_items[1]>>,
                     <<KEY_USER, line_items[2]>>,
                     <<KEY_COMMAND, line_items[Len(line_items)]>> >>,
                  parse_f64(ReplaceComma(line_items[9])),
                  parse_f64(ReplaceComma(line_items[6])))

handle_proc_line(line) == ProcItems(NonEmpty(Split(Trim(line), " ")))

PREFIX_CPU == <<"%", "C", "p", "u", "(", "s", ")", ":">>
PREFIX_MEM == <<"M", "i", "B", " ", "M", "e", "m", " ", ":">>
UNWRAP_NONE == "called Option::unwrap() on a None value"
NOT_CHAR_BOUNDARY == "byte index 1 is not a char boundary"

\* handle_line: first_char is unwrapped from the trimmed line before the
\* test, and &line[..1] slices the untrimmed line at byte 1.
handle_line(line) ==
    IF StartsWith(line, PREFIX_CPU) THEN handle_cpu_line(line)
    ELSE IF StartsWith(line, PREFIX_MEM) THEN handle_mem_line(line)
    ELSE IF Len(line) > 0
    THEN IF Trim(line) = <<>> THEN Panic(<<>>, <<UNWRAP_NONE>>)
         ELSE IF ByteLen(line[1]) # 1 THEN Panic(<<>>, <<NOT_CHAR_BOUNDARY>>)
         ELSE IF line[1] = " " /\ Trim(line)[1] \in Digits
         THEN handle_proc_line(line)
         ELSE Ok(<<>>)
    ELSE Ok(<<>>)

KEY_CATEGORY == <<"c", "a", "t", "e", "g", "o", "r", "y">>
KEY_DESC == <<"d", "e", "s", "c">>

\* DigitRuns keeping the first number of the line only.
DigitRunsFirst(line) ==
    LET runs == NonEmpty(Split([i \in 1..Len(line) |->
                                   IF line[i] \in Digits THEN line[i] ELSE "_"], "_"))
    IN  IF runs = <<>> THEN <<>> ELSE <<runs[1]>>

\* The maximal runs of ASCII digits of a line, in order: every other
\* character becomes '_', the result is split on '_' and the empty pieces
\* are dropped.
DigitRuns(line) ==
    NonEmpty(Split([i \in 1..Len(line) |->
                       IF line[i] \in Digits THEN line[i] ELSE "_"], "_"))

\* str::replace(pat, ""): every non-overlapping occurrence of pat, from the
\* left, is removed.
RECURSIVE RemoveAll(_, _)
RemoveAll(s, pat) ==
    IF Len(s) < Len(pat) \/ pat = <<>> THEN s
    ELSE IF SubSeq(s, 1, Len(pat)) = pat
    THEN RemoveAll(SubSeq(s, Len(pat) + 1, Len(s)), pat)
    ELSE <<s[1]>> \o RemoveAll(Tail(s), pat)

\* .join(" ")
RECURSIVE JoinSpace(_)
JoinSpace(parts) ==
    IF parts = <<>> THEN <<>>
    ELSE IF Len(parts) = 1 THEN parts[1]
    ELSE parts[1] \o <<" ">> \o JoinSpace(Tail(parts))

\* The body of the loop of handle_netstat_line for one digit run.
NetstatLabels(header, line, nr) ==
    << <<KEY_CATEGORY, header>>,
       <<KEY_DESC,
         JoinSpace(NonEmpty(Split(
             TrimMatches(RemoveAll(line, nr), {" ", ":"}), " ")))>> >>

NetstatItem(header, line, nr) ==
    send_influx_value(NETSTAT_INFO_ID, Some(NetstatLabels(header, line, nr)),
                      parse_f64(nr).val)

NetstatItems(header, line, numbers) ==
    Ok([i \in 1..Len(numbers) |-> NetstatItem(header, line, numbers[i])])

handle_netstat_line(header, line) ==
    NetstatItems(header, Trim(line), DigitRuns(Trim(line)))

\* ------------------------------------------------------------ rendering
RECURSIVE NatToString(_)
NatToString(n) ==
    IF n < 10 THEN <<CHOOSE c \in Digits : DigitVal(c) = n>>
    ELSE NatToString(n \div 10) \o <<CHOOSE c \in Digits : DigitVal(c) = n % 10>>

Zeros(n) == [i \in 1..n |-> "0"]

\* The decimal with digits d scaled by 10^e, without exponent.
Scaled(d, e) ==
    IF e >= 0 THEN d \o Zeros(e)
    ELSE IF Len(d) > -e
    THEN SubSeq(d, 1, Len(d) + e) \o <<".">> \o SubSeq(d, Len(d) + e + 1, Len(d))
    ELSE <<"0", ".">> \o Zeros(-e - Len(d)) \o d

\* f64::to_string: the shortest decimal without exponent; an integral value
\* has no fractional part. Negative zero is not distinguished from zero.
f64_to_string(v) ==
    IF v.k = "nan" THEN <<"N", "a", "N">>
    ELSE IF v.k = "inf"
    THEN (IF v.m < 0 THEN <<"-">> ELSE <<>>) \o <<"i", "n", "f">>
    ELSE IF v.m < 0 THEN <<"-">> \o Scaled(NatToString(-v.m), v.e)
    ELSE Scaled(NatToString(v.m), v.e)

\* items.iter().fold(String::new(), |acc, (k,v)| acc + k + " " + v + "\n")
RECURSIVE FoldItems(_)
FoldItems(items) ==
    IF items = <<>> THEN <<>>
    ELSE items[1].key \o <<" ">> \o f64_to_string(items[1].val) \o <<NL>>
         \o FoldItems(Tail(items))

\* The body of the /metrics response: the fold, then one pop.
\* RenderBody without the final pop.
RenderBodyUnpopped(items) == FoldItems(items)

RenderBody(items) == Pop(FoldItems(items))

\* ------------------------------------------------- the commands' outputs
Sp(n) == [i \in 1..n |-> " "]
D0 == <<"0">>
D3 == <<"3">>
D5 == <<"5">>
D7 == <<"7">>

\* Sample lines of `top -b -n 1 -w 512`.
S_CPU == PREFIX_CPU \o <<" ", "1", " ", "u", "s">>
S_MEM == PREFIX_MEM \o <<" ", "2", " ", "t", "o", "t", "a", "l">>
S_HDR == <<"P", "I", "D", " ", "U", "S", "E", "R">>
S_BLANK == <<" ", " ">>
S_MB == <<EACUTE>>
S_BADUTF == <<BAD>>
\* pid user PR NI VIRT RES SHR S %CPU
ProcTokens(mem, cpu) == <<D7, <<"r">>, D0, D0, D0, mem, D0, <<"S">>, cpu>>
ProcRow(tokens) == <<" ">> \o JoinSpace(tokens)
S_PROC == ProcRow(ProcTokens(D5, D3))
S_BADMEM == ProcRow(ProcTokens(<<"1", ".", "2", "g">>, D3))
S_BADCPU == ProcRow(ProcTokens(D5, <<"x">>))
S_SHORT == ProcRow(SubSeq(ProcTokens(D5, D3), 1, 2))

\* Sample lines of `netstat -s`.
S_TCP == <<"T", "c", "p", ":">>
S_CONN == <<" ", " ", "1", "4", " ", "o", "p", "e", "n">>
S_TWO == <<" ", "3", " ", "i", "n", " ", "2", "2", " ", "o", "u", "t">>

\* bytes of an output whose lines are ls, each followed by a newline when nl
Unlines(ls, nl) ==
    Concat([i \in 1..Len(ls) |->
               ls[i] \o (IF nl \/ i < Len(ls) THEN <<NL>> ELSE <<>>)])

TopStdouts ==
    { <<>>,
      Unlines(<<S_CPU, S_PROC>>, TRUE),
      Unlines(<<S_BADMEM, S_PROC>>, FALSE),
      Unlines(<<S_BADCPU, S_CPU>>, FALSE),
      Unlines(<<S_CPU, S_SHORT>>, FALSE),
      Unlines(<<S_HDR, S_BLANK>>, FALSE),
      Unlines(<<S_MB>>, FALSE),
      Unlines(<<S_CPU, S_BADUTF>>, FALSE) }

NetStdouts ==
    { <<>>,
      Unlines(<<S_TCP, S_CONN>>, TRUE),
      Unlines(<<S_CONN, S_TCP, S_TWO>>, FALSE),
      Unlines(<<S_BADUTF>>, FALSE) }

Stderrs == { <<"E">>, <<BAD>> }

\* What Command::output() returns: Err (the command could not be spawned)
\* or Ok(Output {status, stdout, stderr}); a command that fails has written
\* failStdout before it failed.
Outputs(stdouts, failStdout) ==
    { [spawned |-> FALSE, success |-> FALSE, stdout |-> <<>>, stderr |-> <<>>] }
    \cup { [spawned |-> TRUE, success |-> TRUE, stdout |-> o, stderr |-> <<>>] :
             o \in stdouts }
    \cup { [spawned |-> TRUE, success |-> FALSE, stdout |-> failStdout,
            stderr |-> e] : e \in Stderrs }

TopOutputs == Outputs(TopStdouts, Unlines(<<S_MEM>>, TRUE))
NetOutputs == Outputs(NetStdouts, Unlines(<<S_TCP, S_CONN>>, TRUE))

\* ------------------------------------------------------------- adapters
LogEntry(who, kind, text, line) ==
    [who |-> who, kind |-> kind, text |-> text, line |-> line]

AdapterStart(pc, tasks, entries) == [pc |-> pc, tasks |-> tasks, log |-> entries]

\* The success branch of exec_top_command up to the first tasks.next(): one
\* task per line, from_utf8(line).unwrap() being evaluated when the task is
\* created.
TopTasks(lines) ==
    IF \E i \in 1..Len(lines) : ~IsUtf8(lines[i])
    THEN AdapterStart("panic", <<>>, <<>>)
    ELSE AdapterStart("collect",
                      [i \in 1..Len(lines) |->
                          [n |-> i, header |-> <<>>, line |-> lines[i]]],
                      <<>>)

\* exec_top_start without the test of the exit status.
exec_top_start_unchecked(out) ==
    IF ~out.spawned THEN AdapterStart("panic", <<>>, <<>>)
    ELSE TopTasks(Split(out.stdout, NL))

\* exec_top_command from its first poll to its first tasks.next(), or to its
\* return when the command failed.
exec_top_start(out) ==
    IF ~out.spawned THEN AdapterStart("panic", <<>>, <<>>)
    ELSE IF out.success THEN TopTasks(Split(out.stdout, NL))
    ELSE IF ~IsUtf8(out.stderr)
    THEN AdapterStart("done", <<>>,
             <<LogEntry("top", "Unable to convert stderr to UTF-8 string", <<>>, 0)>>)
    ELSE AdapterStart("done", <<>>,
             <<LogEntry("top", "Command error", out.stderr, 0)>>)

NetCons(task, rest) == [panic |-> rest.panic, tasks |-> <<task>> \o rest.tasks]

\* The loop of exec_netstat_command over the lines from line i on: an empty
\* line is skipped, an unindented line ending in ':' becomes the header, any
\* other line becomes a task; both from_utf8(..).unwrap() may panic.
RECURSIVE NetTasks(_, _, _)
NetTasks(lines, i, header_line) ==
    IF i > Len(lines) THEN [panic |-> FALSE, tasks |-> <<>>]
    ELSE IF Len(lines[i]) < 1 THEN NetTasks(lines, i + 1, header_line)
    ELSE IF lines[i][1] # " " /\ lines[i][Len(lines[i])] = ":"
    THEN IF ~IsUtf8(Pop(lines[i])) THEN [panic |-> TRUE, tasks |-> <<>>]
         ELSE NetTasks(lines, i + 1, Pop(lines[i]))
    ELSE IF ~IsUtf8(lines[i]) THEN [panic |-> TRUE, tasks |-> <<>>]
    ELSE NetCons([n |-> i, header |-> header_line, line |-> lines[i]],
                 NetTasks(lines, i + 1, header_line))

NetStart(t) ==
    IF t.panic THEN AdapterStart("panic", <<>>, <<>>)
    ELSE AdapterStart(IF t.tasks = <<>> THEN "done" ELSE "collect", t.tasks, <<>>)

\* exec_netstat_command from its first poll to its first tasks.next(), or to
\* its return.
exec_netstat_start(out) ==
    IF ~out.spawned THEN AdapterStart("panic", <<>>, <<>>)
    ELSE IF out.success THEN NetStart(NetTasks(Split(out.stdout, NL), 1, <<>>))
    ELSE IF ~IsUtf8(out.stderr)
    THEN AdapterStart("done", <<>>,
             <<LogEntry("net", "Unable to convert NETSTAT stderr to UTF-8 string",
                        <<>>, 0)>>)
    ELSE AdapterStart("done", <<>>,
             <<LogEntry("net", "Command error", out.stderr, 0)>>)

\* ---------------------------------------------------------------- state
VARIABLES
    store,      \* DataHolder.data: the (String, f64) pairs, in push order
    storeTag,   \* ghost, parallel to store: adapter and line of each pair, and
                \* whether it was pushed before the last clear (old)
    log,        \* what the collector wrote to stderr since the last clear
    outer,      \* holder of the outer Mutex: "free", "sched" or "main"
    inner,      \* holder of the inner Mutex: "free", "sched" or "main"
    schedPc,    \* position of the collector task
    complete,   \* ghost: both adapters of the last started cycle have finished
    topPc,      \* position of exec_top_command in the current cycle
    topTasks,   \* its FuturesUnordered: the line tasks not yet completed
    topOut,     \* ghost: what `top` returned in the current cycle
    netPc,      \* position of exec_netstat_command in the current cycle
    netTasks,   \* its FuturesUnordered
    netOut,     \* ghost: what `netstat` returned in the current cycle
    mainPc,     \* position of the HTTP loop of main
    queue,      \* urls of the requests accepted and not yet received by the loop
    resp,       \* the response being sent
    procUp,     \* the process is running
    pIn,        \* parser checks: the generated input line
    pPc         \* parser checks: "ready", or the status the parser returned

vars == <<store, storeTag, log, outer, inner, schedPc, complete, topPc,
          topTasks, topOut, netPc, netTasks, netOut, mainPc, queue, resp,
          procUp, pIn, pPc>>
schedVars == <<schedPc, complete>>
topVars == <<topPc, topTasks, topOut>>
netVars == <<netPc, netTasks, netOut>>
mainVars == <<mainPc, queue, resp>>
parseVars == <<pIn, pPc>>

METRICS == <<"/", "m", "e", "t", "r", "i", "c", "s">>
OTHER_URL == <<"/">>
Urls == {METRICS, OTHER_URL}
PLACEHOLDER == <<"r", "u", "n", "n", "i", "n", "g", " ", ".", ".", ".">>

NoOutput == [spawned |-> FALSE, success |-> FALSE, stdout |-> <<>>, stderr |-> <<>>]
NoResp == [url |-> <<>>, code |-> 0, body |-> <<>>, complete |-> TRUE, tags |-> <<>>]
NoInput == [fn |-> "none", line |-> <<>>, valid |-> FALSE, vals |-> <<>>,
            toks |-> <<>>]

InitShared ==
    /\ store = <<>>
    /\ storeTag = <<>>
    /\ log = <<>>
    /\ outer = "free"
    /\ inner = "free"
    /\ schedPc = "lock_outer"
    /\ complete = TRUE
    /\ topPc = "idle"
    /\ topTasks = <<>>
    /\ topOut = NoOutput
    /\ netPc = "idle"
    /\ netTasks = <<>>
    /\ netOut = NoOutput
    /\ mainPc = "recv"
    /\ queue = <<>>
    /\ resp = NoResp
    /\ procUp = TRUE

Init == InitShared /\ pIn = NoInput /\ pPc = "off"

\* clear_data keeping the first pair (truncate(1) for clear()).
clear_data_truncating(data) == SubSeq(data, 1, IF data = <<>> THEN 0 ELSE 1)

\* DataHolder::clear_data
clear_data(data) == <<>>

\* push_data assigning the vector instead of pushing to it.
push_data_replacing(data, dts) == IF dts = <<>> THEN data ELSE dts

\* DataHolder::push_data, once for each pair of dts, in order
push_data(data, dts) == data \o dts

\* ------------------------------------------------------ collector task

\* let lock = thread_lock_a.lock().await;
SchedLockOuter ==
    /\ procUp /\ schedPc = "lock_outer" /\ outer = "free"
    /\ outer' = "sched"
    /\ schedPc' = "lock_inner"
    /\ UNCHANGED <<store, storeTag, log, inner, complete, topVars,
                   netVars, mainVars, procUp, parseVars>>

\* let mut inner_lock = (*lock).lock().await;
SchedLockInner ==
    /\ procUp /\ schedPc = "lock_inner" /\ inner = "free"
    /\ inner' = "sched"
    /\ schedPc' = "clear"
    /\ UNCHANGED <<store, storeTag, log, outer, complete, topVars,
                   netVars, mainVars, procUp, parseVars>>

\* SchedClear with the inner guard kept until the end of the block.
SchedClearKeepingInner ==
    /\ procUp /\ schedPc = "clear"
    /\ store' = clear_data(store)
    /\ storeTag' = [i \in 1..Len(store') |->
                       [storeTag[i] EXCEPT !.old = TRUE]]
    /\ schedPc' = "join"
    /\ complete' = FALSE
    /\ topPc' = "exec"
    /\ netPc' = "exec"
    /\ UNCHANGED <<log, outer, inner, topTasks, topOut, netTasks, netOut,
                   mainVars, procUp, parseVars>>

\* (*inner_lock).clear_data(); the inner guard is dropped; the two adapter
\* futures are created and join! starts polling them.
SchedClear ==
    /\ procUp /\ schedPc = "clear"
    /\ store' = clear_data(store)
    /\ storeTag' = [i \in 1..Len(store') |->
                       [storeTag[i] EXCEPT !.old = TRUE]]
    /\ inner' = "free"
    /\ schedPc' = "join"
    /\ complete' = FALSE
    /\ topPc' = "exec"
    /\ netPc' = "exec"
    /\ UNCHANGED <<log, outer, topTasks, topOut, netTasks, netOut, mainVars,
                   procUp, parseVars>>

\* A panic inside the collector task. Either the runtime aborts the process,
\* or the task is unwound and dropped: its futures and the outer guard are
\* dropped with it and the rest of the process goes on. The line tasks that
\* never completed stay listed.
SchedPanic(abort, who) ==
    /\ schedPc' = "dead"
    /\ procUp' = ~abort
    /\ outer' = IF abort THEN outer ELSE "free"
    /\ topPc' = IF who = "top" THEN "panicked"
                ELSE IF topPc = "done" THEN "done" ELSE "dropped"
    /\ netPc' = IF who = "net" THEN "panicked"
                ELSE IF netPc = "done" THEN "done" ELSE "dropped"

Remove(seq, i) == SubSeq(seq, 1, i - 1) \o SubSeq(seq, i + 1, Len(seq))
Tags(who, n, k) == [i \in 1..k |-> [src |-> who, old |-> FALSE, line |-> n]]

\* exec_top_command, from its first poll to its first tasks.next()
TopStarted(out, r) ==
    /\ topOut' = out
    /\ log' = log \o r.log
    /\ IF r.pc = "panic"
       THEN /\ \E abort \in BOOLEAN : SchedPanic(abort, "top")
            /\ UNCHANGED <<topTasks, netTasks>>
       ELSE /\ topPc' = r.pc
            /\ topTasks' = r.tasks
            /\ UNCHANGED <<schedPc, procUp, outer, netPc, netTasks>>

TopExec ==
    /\ procUp /\ schedPc = "join" /\ topPc = "exec"
    /\ \E out \in TopOutputs : TopStarted(out, exec_top_start(out))
    /\ UNCHANGED <<store, storeTag, inner, complete, netOut, mainVars,
                   parseVars>>

\* One line task of exec_top_command runs to completion (handle_line has no
\* await of its own; each push takes the inner lock), and the adapter logs
\* its error. After the last task the adapter returns.
TopLineDone(i, n, r) ==
    /\ r.items # <<>> => inner = "free"
    /\ store' = push_data(store, r.items)
    /\ storeTag' = storeTag \o Tags("top", n, Len(r.items))
    /\ IF r.status = "panic"
       THEN /\ \E abort \in BOOLEAN : SchedPanic(abort, "top")
            /\ log' = log
            /\ UNCHANGED <<topTasks, netTasks>>
       ELSE /\ topTasks' = Remove(topTasks, i)
            /\ topPc' = IF Len(topTasks) = 1 THEN "done" ELSE "collect"
            /\ log' = IF r.status = "err"
                      THEN Append(log, LogEntry("top", "Line subcommand error",
                                                r.err, n))
                      ELSE log
            /\ UNCHANGED <<schedPc, procUp, outer, netPc, netTasks>>

TopLine ==
    /\ procUp /\ schedPc = "join" /\ topPc = "collect"
    /\ \E i \in 1..Len(topTasks) :
         TopLineDone(i, topTasks[i].n, handle_line(topTasks[i].line))
    /\ UNCHANGED <<inner, complete, topOut, netOut, mainVars, parseVars>>

\* exec_netstat_command, from its first poll to its first tasks.next()
NetStarted(out, r) ==
    /\ netOut' = out
    /\ log' = log \o r.log
    /\ IF r.pc = "panic"
       THEN /\ \E abort \in BOOLEAN : SchedPanic(abort, "net")
            /\ UNCHANGED <<topTasks, netTasks>>
       ELSE /\ netPc' = r.pc
            /\ netTasks' = r.tasks
            /\ UNCHANGED <<schedPc, procUp, outer, topPc, topTasks>>

NetExec ==
    /\ procUp /\ schedPc = "join" /\ netPc = "exec"
    /\ \E out \in NetOutputs : NetStarted(out, exec_netstat_start(out))
    /\ UNCHANGED <<store, storeTag, inner, complete, topOut, mainVars,
                   parseVars>>

\* One line task of exec_netstat_command runs to completion.
NetLineDone(i, n, r) ==
    /\ r.items # <<>> => inner = "free"
    /\ store' = push_data(store, r.items)
    /\ storeTag' = storeTag \o Tags("net", n, Len(r.items))
    /\ netTasks' = Remove(netTasks, i)
    /\ netPc' = IF Len(netTasks) = 1 THEN "done" ELSE "collect"
    /\ log' = IF r.status = "err"
              THEN Append(log, LogEntry("net", "Line subcommand error NETSTAT",
                                        r.err, n))
              ELSE log

NetLine ==
    /\ procUp /\ schedPc = "join" /\ netPc = "collect"
    /\ \E i \in 1..Len(netTasks) :
         NetLineDone(i, netTasks[i].n,
                     handle_netstat_line(netTasks[i].header, netTasks[i].line))
    /\ UNCHANGED <<outer, inner, schedVars, topVars, netOut, mainVars, procUp,
                   parseVars>>

\* join! returns: the block ends, the outer guard is dropped and the task
\* goes to sleep(Duration::from_secs(5)).
SchedJoinDone ==
    /\ procUp /\ schedPc = "join" /\ topPc = "done" /\ netPc = "done"
    /\ outer' = "free"
    /\ schedPc' = "sleep"
    /\ complete' = TRUE
    /\ UNCHANGED <<store, storeTag, log, inner, topVars, netVars,
                   mainVars, procUp, parseVars>>

\* The sleep ends and the loop starts over. What the last cycle's commands
\* returned and what it logged is forgotten here.
SchedWake ==
    /\ procUp /\ schedPc = "sleep"
    /\ schedPc' = "lock_outer"
    /\ log' = <<>>
    /\ topPc' = "idle" /\ topOut' = NoOutput
    /\ netPc' = "idle" /\ netOut' = NoOutput
    /\ UNCHANGED <<store, storeTag, outer, inner, complete, topTasks, netTasks,
                   mainVars, procUp, parseVars>>

\* ------------------------------------------------------------ HTTP loop
\* A client's request is accepted by the server and queued.
Arrive ==
    /\ procUp /\ Len(queue) < MaxQueue
    /\ \E url \in Urls : queue' = Append(queue, url)
    /\ UNCHANGED <<store, storeTag, log, outer, inner, schedVars, topVars,
                   netVars, mainPc, resp, procUp, parseVars>>

\* server.recv() returns a request; for any url but /metrics the response
\* is made at once.
MainRecv ==
    /\ procUp /\ mainPc = "recv" /\ queue # <<>>
    /\ queue' = Tail(queue)
    /\ IF Head(queue) = METRICS
       THEN mainPc' = "lock_outer" /\ resp' = resp
       ELSE /\ mainPc' = "respond"
            /\ resp' = [url |-> Head(queue), code |-> 200, body |-> PLACEHOLDER,
                        complete |-> TRUE, tags |-> <<>>]
    /\ UNCHANGED <<store, storeTag, log, outer, inner, schedVars, topVars,
                   netVars, procUp, parseVars>>

\* let lock = thread_lock_b.lock().await;
MainLockOuter ==
    /\ procUp /\ mainPc = "lock_outer" /\ outer = "free"
    /\ outer' = "main"
    /\ mainPc' = "lock_inner"
    /\ UNCHANGED <<store, storeTag, log, inner, schedVars, topVars, netVars,
                   queue, resp, procUp, parseVars>>

\* let inner_lock = (*lock).lock().await;
MainLockInner ==
    /\ procUp /\ mainPc = "lock_inner" /\ inner = "free"
    /\ inner' = "main"
    /\ mainPc' = "render"
    /\ UNCHANGED <<store, storeTag, log, outer, schedVars, topVars, netVars,
                   queue, resp, procUp, parseVars>>

\* The body is rendered from the store and both guards are dropped.
MainRender ==
    /\ procUp /\ mainPc = "render"
    /\ resp' = [url |-> METRICS, code |-> 200, body |-> RenderBody(store),
                complete |-> complete, tags |-> storeTag]
    /\ outer' = "free"
    /\ inner' = "free"
    /\ mainPc' = "respond"
    /\ UNCHANGED <<store, storeTag, log, schedVars, topVars, netVars, queue,
                   procUp, parseVars>>

\* request.respond(resp); what the loop prints when that fails is not kept.
MainRespond ==
    /\ procUp /\ mainPc = "respond"
    /\ resp' = NoResp
    /\ mainPc' = "recv"
    /\ UNCHANGED <<store, storeTag, log, outer, inner, schedVars, topVars,
                   netVars, queue, procUp, parseVars>>

Next ==
    \/ SchedLockOuter
    \/ SchedLockInner
    \/ SchedClear
    \/ TopExec
    \/ TopLine
    \/ NetExec
    \/ NetLine
    \/ SchedJoinDone
    \/ SchedWake
    \/ Arrive
    \/ MainRecv
    \/ MainLockOuter
    \/ MainLockInner
    \/ MainRender
    \/ MainRespond

Spec == Init /\ [][Next]_vars

\* ------------------------------------------------------- parser checks
\* The parsers applied to generated lines, one line per behaviour: the input
\* is drawn in the initial state and the one step pushes to the empty store.

\* Decimal texts, with the number each denotes ('.' or ',' as separator).
Dec(txt, m, e) == [txt |-> txt, num |-> TRUE, val |-> [k |-> "num", m |-> m, e |-> e]]
NotDec(txt) == [txt |-> txt, num |-> FALSE, val |-> [k |-> "num", m |-> 0, e |-> 0]]
Decimals ==
    { Dec(<<"0", ".", "0">>, 0, 0),
      Dec(<<"3", ",", "2">>, 32, -1),
      Dec(<<"1", "5">>, 15, 0) }
NonDecimals == { NotDec(<<"1", ".", "2", "g">>), NotDec(<<"S">>) }

Pads == 1..MaxPad
Tails == { <<>>, <<",", " ", "0", ".", "5", " ", "w", "a">> }

CpuLine(x, y, z, w, pad, tail) ==
    PREFIX_CPU \o Sp(pad) \o x.txt \o <<" ", "u", "s", ",">>
    \o Sp(pad) \o y.txt \o <<" ", "s", "y", ",">>
    \o Sp(pad) \o z.txt \o <<" ", "n", "i", ",">>
    \o Sp(pad) \o w.txt \o <<" ", "i", "d">> \o tail

MemLine(x, y, z, w, pad, tail) ==
    PREFIX_MEM \o Sp(pad) \o x.txt \o <<" ">> \o TAG_TOTAL \o <<",">>
    \o Sp(pad) \o y.txt \o <<" ">> \o TAG_FREE \o <<",">>
    \o Sp(pad) \o z.txt \o <<" ">> \o TAG_USED \o <<",">>
    \o Sp(pad) \o w.txt \o <<" ">> \o TAG_BUFF \o tail

Input(fn, line, valid, vals, toks) ==
    [fn |-> fn, line |-> line, valid |-> valid, vals |-> vals, toks |-> toks]

CpuInputs ==
    { Input("cpu", CpuLine(x, y, z, w, pad, tail), TRUE,
            <<x.val, y.val, z.val, w.val>>, <<tail>>) :
        x \in Decimals, y \in Decimals, z \in Decimals, w \in Decimals,
        pad \in Pads, tail \in Tails }

MemInputs ==
    { Input("mem", MemLine(x, y, z, w, pad, tail), TRUE,
            <<x.val, y.val, z.val, w.val>>, <<tail>>) :
        x \in Decimals, y \in Decimals, z \in Decimals, w \in Decimals,
        pad \in Pads, tail \in Tails }

\* The columns of a process row after column 8: %MEM, TIME+, COMMAND, ...
ExtraCol(i) ==
    IF i = 1 THEN <<"0", ".", "1">>
    ELSE IF i = 2 THEN <<"0", ":", "0", "1">>
    ELSE IF i = 3 THEN <<"s", "h">>
    ELSE <<"-", "x">>

Pids == { D7, <<"4", "2">> }
Users == { <<"r">>, <<"a", "b">> }

\* The first ncols columns of: pid user PR NI VIRT RES SHR S %CPU extras
RowTokens(pid, user, mem, cpu, ncols) ==
    SubSeq(<<pid, user, <<"2", "0">>, D0, D3, mem.txt, D0, <<"S">>, cpu.txt>>
           \o [i \in 1..MaxExtra |-> ExtraCol(i)], 1, ncols)

RECURSIVE JoinPad(_, _)
JoinPad(parts, pad) ==
    IF parts = <<>> THEN <<>>
    ELSE IF Len(parts) = 1 THEN parts[1]
    ELSE parts[1] \o Sp(pad) \o JoinPad(Tail(parts), pad)

ProcInputs ==
    { Input("proc", Sp(pad) \o JoinPad(RowTokens(pid, user, mem, cpu, ncols), pad),
            ncols >= 9 /\ mem.num /\ cpu.num, <<cpu, mem>>,
            RowTokens(pid, user, mem, cpu, ncols)) :
        pid \in Pids, user \in Users, mem \in Decimals \cup NonDecimals,
        cpu \in Decimals \cup NonDecimals, ncols \in 1..(9 + MaxExtra),
        pad \in Pads }

\* Lines of the top output that are neither the CPU line, the memory line
\* nor a process row.
OtherLines ==
    { <<>>, S_HDR, S_MB, <<"-", "-", "-">>, <<" ", " ", "P", "I", "D">>,
      <<"t", "o", "p", " ", "-", " ", "u", "p", " ", "1">>,
      <<"T", "a", "s", "k", "s", ":", " ", "3">>,
      <<"M", "i", "B", " ", "S", "w", "a", "p", ":", " ", "0", ".", "0">> }
    \cup { Sp(n) : n \in Pads }

LineInputs == { Input("line", l, FALSE, <<>>, <<>>) : l \in OtherLines }


\* Lines of `netstat -s`: headers, data lines with no, one and several
\* numbers, with a number repeated, unindented data, and text with quotes.
S_NONUM == <<" ", "x">>
S_REPEAT == <<" ", "5", " ", "a", " ", "5">>
S_INTYPE == <<"I", "n", "T", "y", "p", "e", "3", ":", " ", "3", "1">>
S_QDATA == <<" ", "1", " ", "b", QUOTE, ",", " ", "d", "e", "s", "c", "=", QUOTE, "c">>
S_QHDR == <<QUOTE, ",", " ", "d", "e", "s", "c", "=", QUOTE, "b", ":">>
S_ONE == <<" ", "1", " ", "c">>
NetLines ==
    { S_TCP, S_NONUM, S_CONN, S_TWO, S_REPEAT, S_INTYPE, S_QDATA, S_QHDR, S_ONE }

RECURSIVE SeqsUpTo(_, _)
SeqsUpTo(S, n) ==
    IF n = 0 THEN { <<>> }
    ELSE SeqsUpTo(S, n - 1)
         \cup { Append(q, x) : q \in { r \in SeqsUpTo(S, n - 1) : Len(r) = n - 1 },
                               x \in S }

NetInputs ==
    { Input("net", Unlines(ls, FALSE), TRUE, <<>>, ls) :
        ls \in SeqsUpTo(NetLines, MaxNetLines) \ { <<>> } }

ParseInputs ==
    CpuInputs \cup MemInputs \cup ProcInputs \cup LineInputs \cup NetInputs

InitParse == InitShared /\ pIn \in ParseInputs /\ pPc = "ready"

\* The parser's pushes reach the store and the caller logs its error.
Parsed(r) ==
    /\ store' = push_data(store, r.items)
    /\ storeTag' = storeTag \o Tags("parse", 1, Len(r.items))
    /\ log' = IF r.status = "err"
              THEN Append(log, LogEntry("parse", "Line subcommand error", r.err, 1))
              ELSE log
    /\ pPc' = r.status
    /\ UNCHANGED <<outer, inner, schedVars, topVars, netVars, mainVars, procUp, pIn>>

ParseCpu == pPc = "ready" /\ pIn.fn = "cpu" /\ Parsed(handle_cpu_line(pIn.line))
ParseMem == pPc = "ready" /\ pIn.fn = "mem" /\ Parsed(handle_mem_line(pIn.line))
ParseProc == pPc = "ready" /\ pIn.fn = "proc" /\ Parsed(handle_proc_line(pIn.line))
ParseLine == pPc = "ready" /\ pIn.fn = "line" /\ Parsed(handle_line(pIn.line))

\* exec_netstat_command on the stdout of a successful `netstat -s`, its line
\* tasks completing in the order they were created.
NetRun(t) ==
    IF t.panic THEN Panic(<<>>, <<"Utf8Error">>)
    ELSE Ok(Concat([i \in 1..Len(t.tasks) |->
                       handle_netstat_line(t.tasks[i].header, t.tasks[i].line).items]))
ParseNet ==
    pPc = "ready" /\ pIn.fn = "net"
        /\ Parsed(NetRun(NetTasks(Split(pIn.line, NL), 1, <<>>)))

\* The /metrics handler run on the store the parser left: both locks are
\* free, so it locks, renders and unlocks without waiting.
ParseRender ==
    /\ pPc \in {"ok", "err"} /\ mainPc = "recv"
    /\ outer = "free" /\ inner = "free"
    /\ resp' = [url |-> METRICS, code |-> 200, body |-> RenderBody(store),
                complete |-> complete, tags |-> storeTag]
    /\ mainPc' = "respond"
    /\ UNCHANGED <<store, storeTag, log, outer, inner, schedVars, topVars,
                   netVars, queue, procUp, parseVars>>

NextParse ==
    ParseCpu \/ ParseMem \/ ParseProc \/ ParseLine \/ ParseNet \/ ParseRender

SpecParse == InitParse /\ [][NextParse]_vars

\* ------------------------------------------------ claims on the parsers
\* A record without labels, as it is kept in the store.
Scalar(id, val) == [key |-> id \o <<"{", "}">>, val |-> val]

\* A process record with its three labels, as it is kept in the store.
ProcRecord(id, pid, user, command, val) ==
    [key |-> id \o <<"{">> \o KEY_PID \o <<"=", QUOTE>> \o pid \o <<QUOTE, ",", " ">>
             \o KEY_USER \o <<"=", QUOTE>> \o user \o <<QUOTE, ",", " ">>
             \o KEY_COMMAND \o <<"=", QUOTE>> \o command \o <<QUOTE, "}">>,
     val |-> val]

\* C8: for every CPU line "X us, Y sy, Z ni, W id" (',' or '.' as decimal
\* separator, with or without a further value followed by an unknown tag)
\* handle_cpu_line returns Ok and pushes exactly the four label-less records
\* cpu_user = X, cpu_system = Y, cpu_nice = Z, cpu_idle = W.
C8_CpuLineFourRecords ==
    (pIn.fn = "cpu" /\ pPc # "ready") =>
        /\ pPc = "ok"
        /\ log = <<>>
        /\ store = << Scalar(CPU_USER_ID, pIn.vals[1]),
                      Scalar(CPU_SYSTEM_ID, pIn.vals[2]),
                      Scalar(CPU_NICE_ID, pIn.vals[3]),
                      Scalar(CPU_IDLE_ID, pIn.vals[4]) >>

\* A CPU line with distinct values, a comma as decimal separator and an
\* unknown tag at its end has been parsed.
C8_Witness ==
    /\ pIn.fn = "cpu" /\ pPc = "ok" /\ Len(store) = 4
    /\ pIn.toks[1] # <<>>
    /\ pIn.vals[1].m = 32 /\ pIn.vals[2].m = 15 /\ pIn.vals[3].m = 0

\* C9: for every memory line with the pairs total, free, used, buff/cache
\* handle_mem_line returns Ok and pushes exactly the four label-less records
\* mem_total, mem_free, mem_used, mem_buffered, each with the value of the
\* token before its label.
C9_MemLineFourRecords ==
    (pIn.fn = "mem" /\ pPc # "ready") =>
        /\ pPc = "ok"
        /\ log = <<>>
        /\ store = << Scalar(MEM_TOTAL_ID, pIn.vals[1]),
                      Scalar(MEM_FREE_ID, pIn.vals[2]),
                      Scalar(MEM_USED_ID, pIn.vals[3]),
                      Scalar(MEM_BUFFERED_ID, pIn.vals[4]) >>

C9_Witness ==
    /\ pIn.fn = "mem" /\ pPc = "ok" /\ Len(store) = 4
    /\ pIn.vals[1].m = 15 /\ pIn.vals[2].m = 32 /\ pIn.vals[4].m = 0

\* C10: for every process row whose columns 8 and 5 are decimals,
\* handle_proc_line pushes exactly two records, proc_cpu with the value of
\* column 8 and proc_mem with the value of column 5, both labelled
\* pid = column 0, user = column 1, command = last column.
C10_ProcRowTwoRecords ==
    (pIn.fn = "proc" /\ pIn.valid /\ pPc # "ready") =>
        /\ pPc = "ok"
        /\ log = <<>>
        /\ store = << ProcRecord(PROC_CPU_ID, pIn.toks[1], pIn.toks[2],
                                 pIn.toks[Len(pIn.toks)], pIn.vals[1].val),
                      ProcRecord(PROC_MEM_ID, pIn.toks[1], pIn.toks[2],
                                 pIn.toks[Len(pIn.toks)], pIn.vals[2].val) >>

\* A row with columns after column 8 and different CPU and memory values has
\* been parsed.
C10_Witness ==
    /\ pIn.fn = "proc" /\ pIn.valid /\ pPc = "ok" /\ Len(store) = 2
    /\ Len(pIn.toks) > 9
    /\ pIn.vals[1].val # pIn.vals[2].val

\* -------------------------------------------- claims on the collection
Range(seq) == { seq[i] : i \in 1..Len(seq) }

\* The records of the store that adapter who pushed, in store order.
FromSrc(who) ==
    LET idx == { i \in 1..Len(store) : storeTag[i].src = who }
        f[k \in 0..Len(store)] ==
            IF k = 0 THEN <<>>
            ELSE IF k \in idx THEN Append(f[k - 1], store[k]) ELSE f[k - 1]
    IN  f[Len(store)]

\* The numbers of the records of the store pushed for line n of adapter who.
FromLine(who, n) ==
    { i \in 1..Len(store) : storeTag[i].src = who /\ storeTag[i].line = n }

Count(seq, x) == Cardinality({ i \in 1..Len(seq) : seq[i] = x })
SameBag(a, b) ==
    /\ Len(a) = Len(b)
    /\ \A i \in 1..Len(a) : Count(a, a[i]) = Count(b, a[i])

Failed(out) == out.spawned /\ ~out.success
Succeeded(out) == out.spawned /\ out.success
TopLines == Split(topOut.stdout, NL)
TopPending == { topTasks[i].n : i \in 1..Len(topTasks) }

\* What the lines of an output parse to, line by line.
TopExpected(out) ==
    IF ~Succeeded(out) THEN <<>>
    ELSE Concat([i \in 1..Len(Split(out.stdout, NL)) |->
                    handle_line(Split(out.stdout, NL)[i]).items])
NetExpectedOf(tasks) ==
    Concat([i \in 1..Len(tasks) |->
               handle_netstat_line(tasks[i].header, tasks[i].line).items])
NetExpected(out) ==
    IF ~Succeeded(out) THEN <<>>
    ELSE NetExpectedOf(NetTasks(Split(out.stdout, NL), 1, <<>>).tasks)

\* C1: a /metrics response is rendered from the complete snapshot of a
\* finished cycle, or renders nothing; it never holds part of a cycle's
\* records nor records of two cycles.
C1_ReaderSeesWholeSnapshot ==
    (mainPc = "respond" /\ resp.url = METRICS) =>
        /\ resp.complete \/ resp.tags = <<>>
        /\ \A i \in 1..Len(resp.tags) : ~resp.tags[i].old

\* C2: the collector only ever moves along lock, clear, run both adapters,
\* sleep, lock, ...; it leaves the adapters only when both have finished and
\* clears only after the sleep.
SchedOrder ==
    { <<"lock_outer", "lock_inner">>, <<"lock_inner", "clear">>,
      <<"clear", "join">>, <<"join", "sleep">>, <<"sleep", "lock_outer">> }
C2_StrictCycleForever ==
    [][ schedPc' # schedPc =>
           /\ <<schedPc, schedPc'>> \in SchedOrder
           /\ schedPc = "join" => topPc = "done" /\ netPc = "done" ]_vars

\* C3: no failure of a command, of a decoding or of a line ends the
\* collector task or the process.
C3_NoFailureIsFatal == procUp /\ schedPc # "dead"

\* C4 as stated: after a cycle in which a command exited non-zero, its
\* adapter has logged the captured stderr, the store holds no record of that
\* source nor of an earlier cycle, and it holds the other adapter's records.
StoreAfterFailure(who, other, expected) ==
    /\ procUp
    /\ FromSrc(who) = <<>>
    /\ \A i \in 1..Len(storeTag) : ~storeTag[i].old
    /\ SameBag(FromSrc(other), expected)
    /\ (mainPc = "respond" /\ resp.url = METRICS /\ resp.tags = storeTag) =>
           resp.code = 200 /\ resp.body = RenderBody(FromSrc(other))
C4_FailedCommandLogsStderr ==
    schedPc = "sleep" =>
        /\ Failed(topOut) =>
              /\ LogEntry("top", "Command error", topOut.stderr, 0) \in Range(log)
              /\ StoreAfterFailure("top", "net", NetExpected(netOut))
        /\ Failed(netOut) =>
              /\ LogEntry("net", "Command error", netOut.stderr, 0) \in Range(log)
              /\ StoreAfterFailure("net", "top", TopExpected(topOut))

\* C4 amended: the adapter logs the captured stderr when it is valid UTF-8,
\* and the failure of its decoding otherwise; the rest as stated.
StderrLogged(who, out, undecodable) ==
    IF IsUtf8(out.stderr)
    THEN LogEntry(who, "Command error", out.stderr, 0) \in Range(log)
    ELSE LogEntry(who, undecodable, <<>>, 0) \in Range(log)
C4_FailedCommandLeavesNoRecord ==
    schedPc = "sleep" =>
        /\ Failed(topOut) =>
              /\ StderrLogged("top", topOut,
                              "Unable to convert stderr to UTF-8 string")
              /\ StoreAfterFailure("top", "net", NetExpected(netOut))
        /\ Failed(netOut) =>
              /\ StderrLogged("net", netOut,
                              "Unable to convert NETSTAT stderr to UTF-8 string")
              /\ StoreAfterFailure("net", "top", TopExpected(topOut))

\* `top` failed with its stdout not empty, `netstat` gave a record, and a
\* /metrics request has been answered with them.
C4_Witness ==
    /\ schedPc = "sleep" /\ Failed(topOut) /\ topOut.stdout # <<>>
    /\ store # <<>> /\ FromSrc("net") = store
    /\ mainPc = "respond" /\ resp.url = METRICS /\ resp.tags = storeTag
    /\ resp.body # <<>>

\* C5: once the task of a process row whose CPU or memory column is not a
\* number has run, the store holds no record of that row and the adapter has
\* logged the conversion error of that row; when the adapter has returned,
\* every other line has contributed what it parses to, and after the cycle
\* the other adapter's records are there.
BadRowError(line) ==
    IF line = S_BADCPU THEN <<ERR_PROC_CPU, "invalid float literal">>
    ELSE <<ERR_PROC_MEM, "invalid float literal">>
C5_BadNumberRowOnlySkipped ==
    (Succeeded(topOut) /\ topPc # "exec") =>
        /\ \A n \in 1..Len(TopLines) :
              (TopLines[n] \in {S_BADCPU, S_BADMEM} /\ n \notin TopPending) =>
                  /\ FromLine("top", n) = {}
                  /\ LogEntry("top", "Line subcommand error",
                              BadRowError(TopLines[n]), n) \in Range(log)
        /\ topPc = "done" =>
              \A n \in 1..Len(TopLines) :
                  TopLines[n] \notin {S_BADCPU, S_BADMEM} =>
                      [i \in 1..Cardinality(FromLine("top", n)) |->
                          store[CHOOSE j \in FromLine("top", n) :
                                   Cardinality({k \in FromLine("top", n) : k <= j}) = i]]
                      = handle_line(TopLines[n]).items
        /\ schedPc = "sleep" => SameBag(FromSrc("net"), NetExpected(netOut))

\* The row with the bad memory column has been skipped, the row after it has
\* given its two records, and `netstat` has given its records.
C5_Witness ==
    /\ schedPc = "sleep" /\ Succeeded(topOut)
    /\ TopLines = <<S_BADMEM, S_PROC>>
    /\ Len(FromSrc("top")) = 2 /\ FromSrc("net") # <<>>
    /\ Len(log) = 1

\* C6: a process row with fewer than nine columns is a parse error of that
\* line: the adapter goes on, logs an error for it and returns.
C6_ShortRowIsLineError ==
    (Succeeded(topOut) /\ \E n \in 1..Len(TopLines) : TopLines[n] = S_SHORT) =>
        /\ topPc # "panicked"
        /\ topPc = "done" =>
              \E e \in Range(log) : e.who = "top" /\ TopLines[e.line] = S_SHORT

\* C7: a line that is not the CPU line, the memory line or a process row
\* (empty, blank, header, separator) gives Ok, no record and no log entry.
C7_UnmatchedLineIsIgnored ==
    (pIn.fn = "line" /\ pPc # "ready") =>
        pPc = "ok" /\ store = <<>> /\ log = <<>>

\* ------------------------------------------------- claims on `netstat`
\* An unindented line ending in ':'.
IsHeader(l) == l # <<>> /\ l[1] # " " /\ l[Len(l)] = ":"
IsData(l) == l # <<>> /\ ~IsHeader(l)

\* The text of the last header before line n, <<>> when there is none.
HeaderBefore(lines, n) ==
    LET hs == { j \in 1..(n - 1) : IsHeader(lines[j]) }
    IN  IF hs = {} THEN <<>>
        ELSE Pop(lines[CHOOSE j \in hs : \A k \in hs : k <= j])

\* Where the maximal digit runs of l start, and the k-th run from the left.
RunStarts(l) ==
    { i \in 1..Len(l) : l[i] \in Digits /\ (i = 1 \/ l[i - 1] \notin Digits) }
RunEnd(l, i) ==
    CHOOSE j \in i..Len(l) :
        /\ \A k \in i..j : l[k] \in Digits
        /\ j = Len(l) \/ l[j + 1] \notin Digits
NthRun(l, k) ==
    LET i == CHOOSE s \in RunStarts(l) :
                 Cardinality({ t \in RunStarts(l) : t <= s }) = k
    IN  SubSeq(l, i, RunEnd(l, i))

\* One entry per digit run of every data line, in the order of the output.
RunsOf(lines) ==
    Concat([n \in 1..Len(lines) |->
               IF IsData(lines[n])
               THEN [k \in 1..Cardinality(RunStarts(lines[n])) |->
                        [n |-> n, run |-> NthRun(lines[n], k)]]
               ELSE <<>>])

CategoryPrefix(header) ==
    NETSTAT_INFO_ID \o <<"{">> \o KEY_CATEGORY \o <<"=", QUOTE>> \o header
        \o <<QUOTE, ",", " ">> \o KEY_DESC \o <<"=", QUOTE>>

\* C11: a data line with N maximal digit runs gives exactly N netstat_info
\* records, the k-th with the value of the k-th run and with the category of
\* the last header line before it (its text without the ':'); header lines
\* give no record.
NetRecordsMatch(lines, runs) ==
    /\ pPc = "ok"
    /\ Len(store) = Len(runs)
    /\ \A k \in 1..Len(runs) :
          /\ store[k].val = Num(DigitsVal(runs[k].run), 0)
          /\ StartsWith(store[k].key,
                        CategoryPrefix(HeaderBefore(lines, runs[k].n)))
C11_OneRecordPerDigitRun ==
    (pIn.fn = "net" /\ pPc # "ready") =>
        NetRecordsMatch(pIn.toks, RunsOf(pIn.toks))

\* A header, a line with two numbers, a second header and a line with none.
C11_Witness ==
    /\ pIn.fn = "net" /\ pPc = "ok"
    /\ pIn.toks = <<S_TCP, S_TWO, S_NONUM>>
    /\ Len(store) = 2

\* The first occurrence of pat in s removed.
RECURSIVE RemoveFirst(_, _)
RemoveFirst(s, pat) ==
    IF Len(s) < Len(pat) \/ pat = <<>> THEN s
    ELSE IF SubSeq(s, 1, Len(pat)) = pat THEN SubSeq(s, Len(pat) + 1, Len(s))
    ELSE <<s[1]>> \o RemoveFirst(Tail(s), pat)

DescWithout(line, run) ==
    JoinSpace(NonEmpty(Split(TrimMatches(RemoveFirst(line, run), {" ", ":"}), " ")))

\* C12: the desc of the record of a digit run is the line with only the
\* first occurrence of that run's digits removed, trimmed of ':' and ' ' and
\* with its runs of spaces collapsed; every other digit stays in the desc.
C12_DescDropsFirstOccurrenceOnly ==
    (pIn.fn = "net" /\ pPc # "ready") =>
        \A k \in 1..Len(RunsOf(pIn.toks)) :
            k <= Len(store) =>
                store[k].key =
                    CategoryPrefix(HeaderBefore(pIn.toks, RunsOf(pIn.toks)[k].n))
                    \o DescWithout(pIn.toks[RunsOf(pIn.toks)[k].n],
                                   RunsOf(pIn.toks)[k].run)
                    \o <<QUOTE, "}">>

\* ----------------------------------------------- claims on the rendering
RenderedLine(item) == item.key \o <<" ">> \o f64_to_string(item.val)
EndsWith(s, p) == Len(s) >= Len(p) /\ SubSeq(s, Len(s) - Len(p) + 1, Len(s)) = p

\* C13: the /metrics body is the lines "name{labels} value" of the records
\* of the store, in store order, joined by single newlines with no newline
\* after the last; a label-less record renders with empty braces; the body of
\* the empty store is empty; the status is 200.
C13_BodyIsOneLinePerRecord ==
    (pPc # "off" /\ mainPc = "respond") =>
        /\ resp.code = 200
        /\ resp.body = Unlines([i \in 1..Len(store) |-> RenderedLine(store[i])], FALSE)
        /\ store = <<>> => resp.body = <<>>
        /\ pIn.fn \in {"cpu", "mem"} =>
              \A i \in 1..Len(store) :
                  \E v \in Range(pIn.vals) :
                      \E id \in {CPU_USER_ID, CPU_IDLE_ID, CPU_SYSTEM_ID, CPU_NICE_ID,
                                 MEM_TOTAL_ID, MEM_FREE_ID, MEM_USED_ID,
                                 MEM_BUFFERED_ID} :
                          RenderedLine(store[i])
                              = id \o <<"{", "}", " ">> \o f64_to_string(v)

\* The four records of a CPU line rendered: three newlines, none at the end.
C13_Witness ==
    /\ mainPc = "respond" /\ pIn.fn = "cpu" /\ Len(store) = 4
    /\ Cardinality({ i \in 1..Len(resp.body) : resp.body[i] = NL }) = 3
    /\ resp.body[Len(resp.body)] # NL

\* C14: the rendering is unambiguous: two records of an output whose labels
\* differ never render to the same line.
C14_DifferentLabelsDifferentLines ==
    (pIn.fn = "net" /\ pPc = "ok" /\ mainPc = "respond") =>
        \A j, k \in 1..Len(RunsOf(pIn.toks)) :
            NetstatLabels(HeaderBefore(pIn.toks, RunsOf(pIn.toks)[j].n),
                          Trim(pIn.toks[RunsOf(pIn.toks)[j].n]),
                          RunsOf(pIn.toks)[j].run)
            # NetstatLabels(HeaderBefore(pIn.toks, RunsOf(pIn.toks)[k].n),
                            Trim(pIn.toks[RunsOf(pIn.toks)[k].n]),
                            RunsOf(pIn.toks)[k].run)
            => Split(resp.body, NL)[j] # Split(resp.body, NL)[k]

\* ---------------------------------------- claims on the store and the locks
\* C15: a request for another path than /metrics is answered without
\* waiting for the store: it is never left in the queue behind a /metrics
\* request that waits for the lock the collector holds.
C15_OtherPathNeverWaitsForStore ==
    ~ /\ procUp /\ mainPc = "lock_outer" /\ outer = "sched"
      /\ \E i \in 1..Len(queue) : queue[i] = OTHER_URL

\* s is the pieces in order, the first at its start and the last at its end,
\* with any text between two pieces.
RECURSIVE HasPieces(_, _)
HasPieces(s, pieces) ==
    IF Len(pieces) = 1 THEN EndsWith(s, pieces[1])
    ELSE \E i \in 1..(Len(s) - Len(pieces[1]) + 1) :
            /\ SubSeq(s, i, i + Len(pieces[1]) - 1) = pieces[1]
            /\ HasPieces(SubSeq(s, i + Len(pieces[1]), Len(s)), Tail(pieces))
HasLabels(key, id, keys) ==
    /\ StartsWith(key, id \o <<"{">> \o keys[1] \o <<"=", QUOTE>>)
    /\ HasPieces(SubSeq(key, Len(id) + 2, Len(key)),
                 [i \in 1..(Len(keys) + 1) |->
                     IF i = 1 THEN keys[1] \o <<"=", QUOTE>>
                     ELSE IF i = Len(keys) + 1 THEN <<QUOTE, "}">>
                     ELSE <<QUOTE, ",", " ">> \o keys[i] \o <<"=", QUOTE>>])

ScalarIds ==
    { CPU_USER_ID, CPU_IDLE_ID, CPU_SYSTEM_ID, CPU_NICE_ID,
      MEM_TOTAL_ID, MEM_FREE_ID, MEM_USED_ID, MEM_BUFFERED_ID }
WellFormedKey(key) ==
    \/ \E id \in ScalarIds : key = id \o <<"{", "}">>
    \/ \E id \in {PROC_CPU_ID, PROC_MEM_ID} :
          HasLabels(key, id, <<KEY_PID, KEY_USER, KEY_COMMAND>>)
    \/ HasLabels(key, NETSTAT_INFO_ID, <<KEY_CATEGORY, KEY_DESC>>)

\* C16: every record of the store has one of the eleven names and the label
\* keys of its name: none for cpu_* and mem_*, pid, user, command for
\* proc_cpu and proc_mem, category, desc for netstat_info.
C16_NamesAndLabelKeysFixed == \A i \in 1..Len(store) : WellFormedKey(store[i].key)

\* A label-less record, a process record and a netstat record in the store.
C16_Witness ==
    /\ \E i \in 1..Len(store) : StartsWith(store[i].key, CPU_USER_ID)
    /\ \E i \in 1..Len(store) : StartsWith(store[i].key, PROC_MEM_ID)
    /\ \E i \in 1..Len(store) : StartsWith(store[i].key, NETSTAT_INFO_ID)

\* C17: at the end of a cycle the records of the store are, as a multiset,
\* what the two outputs parse to, whatever the order in which the adapters
\* and their line tasks ran.
C17_SameRecordsInAnyOrder ==
    schedPc = "sleep" =>
        SameBag(store, TopExpected(topOut) \o NetExpected(netOut))

\* A cycle whose tasks ran in another order than the one of the outputs.
C17_Witness ==
    /\ schedPc = "sleep" /\ Len(store) >= 4
    /\ store # TopExpected(topOut) \o NetExpected(netOut)
    /\ FromSrc("top") # TopExpected(topOut)

\* The records pushed for line n of adapter who, in store order.
LineRecords(who, n) ==
    [i \in 1..Cardinality(FromLine(who, n)) |->
        store[CHOOSE j \in FromLine(who, n) :
                 Cardinality({ k \in FromLine(who, n) : k <= j }) = i]]
NetTasksOf(out) ==
    IF Succeeded(out) THEN NetTasks(Split(out.stdout, NL), 1, <<>>).tasks ELSE <<>>
StoreIsThisCycle ==
    /\ \A i \in 1..Len(storeTag) : ~storeTag[i].old
    /\ Len(store) = Len(TopExpected(topOut)) + Len(NetExpected(netOut))
    /\ Succeeded(topOut) =>
          \A n \in 1..Len(TopLines) :
              LineRecords("top", n) = handle_line(TopLines[n]).items
    /\ \A i \in 1..Len(NetTasksOf(netOut)) :
          LineRecords("net", NetTasksOf(netOut)[i].n)
              = handle_netstat_line(NetTasksOf(netOut)[i].header,
                                    NetTasksOf(netOut)[i].line).items

\* C18: while the collector sleeps the store holds exactly the records of
\* the lines of the cycle's outputs, each once and none of an earlier cycle;
\* the store changes only inside a cycle: not during the sleep and not by a
\* request.
C18_StoreIsExactlyTheLastCycle ==
    /\ [](schedPc = "sleep" => StoreIsThisCycle)
    /\ [][store' # store => schedPc \in {"clear", "join"} /\ mainPc' = mainPc]_vars

\* A second cycle has completed and replaced the records of the first.
C18_Witness ==
    /\ schedPc = "sleep" /\ Len(store) >= 3
    /\ mainPc = "respond" /\ resp.url = METRICS
    /\ resp.tags # <<>> /\ resp.tags # storeTag

\* C19: the two locks are taken outer first; the collector has released the
\* inner lock when the adapters run; an append finds the inner lock free while
\* the collector holds the outer one; whoever holds the outer lock never waits
\* for the inner one, so the collector and a reader never wait for each other.
C19_NestedLocksNeverDeadlock ==
    /\ inner # "free" => outer = inner
    /\ schedPc = "join" => outer = "sched" /\ inner = "free"
    /\ schedPc = "lock_inner" => outer = "sched" /\ inner = "free"
    /\ mainPc = "lock_inner" => outer = "main" /\ inner = "free"
    /\ ~ /\ schedPc \in {"lock_outer", "lock_inner"} /\ ~ENABLED (SchedLockOuter \/ SchedLockInner)
         /\ mainPc \in {"lock_outer", "lock_inner"} /\ ~ENABLED (MainLockOuter \/ MainLockInner)
         /\ procUp

\* A reader waits for the outer lock while the line tasks are appending.
C19_Witness ==
    /\ schedPc = "join" /\ topPc = "collect" /\ store # <<>>
    /\ mainPc = "lock_outer" /\ outer = "sched"

====
